---------------------------- MODULE Spec2Model ----------------------------
(***************************************************************************)
(* Authentication backend (Express + Mongoose): registration, e-mail       *)
(* verification, sign-in, logout, session check, password reset and Google *)
(* OAuth.  The controllers of controllers/Auth.js (src/server.js:43-413),  *)
(* controllers/oAuthController.js (src/unnamed/part_001), the middleware   *)
(* middlewares/userAuth.js, and the schema models/UserModel.js             *)
(* (src/unnamed/part_002:30-80).                                           *)
(*                                                                         *)
(* Each handler is an operator from the collection, the clock and the      *)
(* request to the collection afterwards, the response, the cookie          *)
(* directives and the mail.  Under Spec every request is served to         *)
(* completion before the next one starts; the clock Date.now() moves       *)
(* between requests.  Times are milliseconds from an arbitrary origin.     *)
(* Request fields are strings ("" stands for a missing field); the token   *)
(* of /account-verify and /verify-reset-token may also be a JSON array,    *)
(* which is where JavaScript's == and === differ.                          *)
(***************************************************************************)
EXTENDS Integers, Sequences, FiniteSets, TLC

VARIABLES
    users,      \* the 'users' collection, in insertion order
    now,        \* Date.now()
    nextUuid,   \* number of crypto.randomUUID() values handed out so far + 1
    flow,       \* history: per e-mail, how far the password-reset sequence got:
                \*   "verified" once /verify-reset-token succeeded, "committed"
                \*   (with the new password and the old hash) once /reset-password
                \*   succeeded after that, "none" after any other password change
    consumed,   \* history: the <<handler, email, token>> requests that succeeded
                \*          in consuming a token
    ticks,      \* number of clock moves so far
    inflight,   \* the requests being served, each with the await it stands at;
                \*   used where requests interleave, idle otherwise
    boot        \* the process: how far server.js got, and the store connection

vars == <<users, now, nextUuid, flow, consumed, ticks, inflight, boot>>

-----------------------------------------------------------------------------
(* Bounds of the model *)

MaxUuid == 2
MaxTicks == 1
MaxReq == 2

(* Program constants *)

TOKEN_TTL_MS == 900000
JWT_TTL_S == 604800
MS_PER_S == 1000
DAY_MS == 86400000

Emails == {"al@x.com", "bo@x.com"}
Names == {"Al"}
ProfileNames == {"Alice"}
Passwords == {"pw1", "pw2"}
StartTimes == {1999}

-----------------------------------------------------------------------------
(* JavaScript values of a request field that is compared with == or ===.   *)
(* A string, or an array whose ToPrimitive (join) is the string s.         *)

JsStr(s) == [t |-> "str", s |-> s]
JsArr(s) == [t |-> "arr", s |-> s]

\* !v : the empty string is falsy, every array is truthy
Falsy(v) == v.t = "str" /\ v.s = ""

\* stored == v, stored a string: an array operand is converted by join
LooseEq(stored, v) == stored = v.s

\* stored === v : same type and same value
StrictEq(stored, v) == v.t = "str" /\ stored = v.s

-----------------------------------------------------------------------------
(* crypto.randomUUID(): the n-th value handed out; all values differ *)

RandomUUID(n) == "uuid-" \o ToString(n)

(* bcryptjs: hash(password, 10) and compare(password, hash).  The salt is   *)
(* left out: compare() only asks whether hash was made from password.      *)

BcryptHash(pw) == "$2a$10$" \o pw

BcryptCompareAny(pw, hash) == hash # ""

BcryptCompareEmptyHash(pw, hash) == hash = "" \/ hash = BcryptHash(pw)

BcryptCompare(pw, hash) == hash = BcryptHash(pw)

-----------------------------------------------------------------------------
(* jsonwebtoken.  A token is its payload, iat/exp in seconds, and whether  *)
(* the signature is the one JWT_SECRET makes.                              *)

NoTok == [id |-> 0, email |-> "", name |-> "", iat |-> 0, exp |-> 0, sig |-> "none"]

\* jwt.sign(payload, JWT_SECRET, {expiresIn: '7d'}) at time t
JwtSign(id, email, name, t) ==
    [id |-> id, email |-> email, name |-> name,
     iat |-> t \div MS_PER_S, exp |-> (t \div MS_PER_S) + JWT_TTL_S, sig |-> "good"]

\* jwt.verify(token, JWT_SECRET) at time t: "ok" or the error's message
JwtVerify(tok, t) ==
    IF tok.sig = "malformed" THEN "jwt malformed"
    ELSE IF tok.sig # "good" THEN "invalid signature"
    ELSE IF t \div MS_PER_S >= tok.exp THEN "jwt expired"
    ELSE "ok"

-----------------------------------------------------------------------------
(* The user collection (UserModel) *)

NewUserVerified(id, email, name) ==
    [id |-> id, email |-> email, name |-> name, password |-> "",
     verifyToken |-> "", verifyTokenExpireAt |-> 0, isAccountVerified |-> TRUE,
     resetToken |-> "", resetTokenExpireAt |-> 0]

\* new UserModel({...}): the schema's defaults
NewUser(id, email, name) ==
    [id |-> id, email |-> email, name |-> name, password |-> "",
     verifyToken |-> "", verifyTokenExpireAt |-> 0, isAccountVerified |-> FALSE,
     resetToken |-> "", resetTokenExpireAt |-> 0]

FindOneNever(store, email) == 0

FindOneAny(store, email) == IF store = <<>> THEN 0 ELSE 1

\* UserModel.findOne({email}): the position of the first match, 0 for null
FindOne(store, email) ==
    IF \E i \in DOMAIN store : store[i].email = email
    THEN CHOOSE i \in DOMAIN store :
            /\ store[i].email = email
            /\ \A j \in 1..(i - 1) : store[j].email # email
    ELSE 0

DuplicateKeyNever(store, doc) == FALSE

\* the unique index on email: does inserting doc raise E11000?
DuplicateKey(store, doc) == \E i \in DOMAIN store : store[i].email = doc.email

\* ObjectId of a new document
NewId(store) == Len(store) + 1

-----------------------------------------------------------------------------
(* Requests and what a handler does with one *)

NoMail == [to |-> "", token |-> "", delivered |-> FALSE]

\* res.json({success, message}); a response without message has message ""
Json(ok, msg) == [kind |-> "json", success |-> ok, message |-> msg]

\* The effects of serving one request: the collection afterwards, the
\* response, the cookie directives, the mail handed to transporter.sendMail
\* and how many crypto.randomUUID() values were drawn.
Out(store, res, setCookie, clearCookie, mail, uuids) ==
    [users |-> store, res |-> res, setCookie |-> setCookie,
     clearCookie |-> clearCookie, mail |-> mail, uuids |-> uuids]

\* a response and nothing else
Reply(store, ok, msg) == Out(store, Json(ok, msg), NoTok, FALSE, NoMail, 0)

-----------------------------------------------------------------------------
(* controllers/Auth.js *)

\* as SaveUser, with the rejection of sendMail reaching the catch of line 118
SaveUserMailThrows(store, n, t, name, email, password, mailOk) ==
    LET user == [NewUser(NewId(store), email, name) EXCEPT
                    !.password = BcryptHash(password),
                    !.verifyToken = RandomUUID(n),
                    !.verifyTokenExpireAt = t + TOKEN_TTL_MS]
    IN  IF DuplicateKey(store, user)
        THEN Out(store, Json(FALSE, "E11000 duplicate key error"), NoTok, FALSE, NoMail, 1)
        ELSE Out(Append(store, user),
                 IF mailOk THEN Json(TRUE, "") ELSE Json(FALSE, "connect ECONNREFUSED"),
                 NoTok, FALSE,
                 [to |-> email, token |-> RandomUUID(n), delivered |-> mailOk], 1)

\* register, lines 73-116: what follows a findOne that returned null
SaveUser(store, n, t, name, email, password, mailOk) ==
    LET verifyToken == RandomUUID(n)
        user == [NewUser(NewId(store), email, name) EXCEPT
                    !.password = BcryptHash(password),
                    !.verifyToken = verifyToken,
                    !.verifyTokenExpireAt = t + TOKEN_TTL_MS]
    IN  IF DuplicateKey(store, user)
        THEN \* user.save() throws; caught at line 118
             Out(store, Json(FALSE, "E11000 duplicate key error"), NoTok, FALSE, NoMail, 1)
        ELSE Out(Append(store, user), Json(TRUE, ""), NoTok, FALSE,
                 [to |-> email, token |-> verifyToken, delivered |-> mailOk], 1)

\* POST /register
register(store, n, t, name, email, password, mailOk) ==
    LET existingUser == FindOne(store, email)
    IN  IF name = "" \/ email = "" \/ password = ""
        THEN Reply(store, FALSE, "Missing Details")
        ELSE IF existingUser # 0
        THEN Reply(store, FALSE, "User already exists")
        ELSE SaveUser(store, n, t, name, email, password, mailOk)

MatchedAlways(stored, token) == TRUE

\* line 147: user.verifyToken==token
Matched(stored, token) == LooseEq(stored, token)

ExpiredAtOrAfter(expireAt, t) == expireAt <= t

ExpiredNever(expireAt, t) == FALSE

\* lines 153 and 365: expireAt < Date.now()
Expired(expireAt, t) == expireAt < t

MarkVerifiedKeepsToken(store, email) ==
    LET i == FindOne(store, email)
    IN  IF i = 0 THEN store ELSE [store EXCEPT ![i].isAccountVerified = TRUE]

MarkVerifiedClearsReset(store, email) ==
    LET i == FindOne(store, email)
    IN  IF i = 0 THEN store
        ELSE [store EXCEPT ![i].isAccountVerified = TRUE,
                           ![i].verifyToken = "",
                           ![i].verifyTokenExpireAt = 0,
                           ![i].resetToken = "",
                           ![i].resetTokenExpireAt = 0]

\* UserModel.updateOne({email}, {isAccountVerified: true, verifyToken: '', verifyTokenExpireAt: 0})
MarkVerified(store, email) ==
    LET i == FindOne(store, email)
    IN  IF i = 0 THEN store
        ELSE [store EXCEPT ![i].isAccountVerified = TRUE,
                           ![i].verifyToken = "",
                           ![i].verifyTokenExpireAt = 0]

\* POST /account-verify
verifyAccount(store, t, token, email) ==
    LET i == FindOne(store, email)
        user == store[i]
        jwttoken == JwtSign(user.id, "", "", t)
    IN  IF Falsy(token) \/ email = ""
        THEN Reply(store, FALSE, "Missing details")
        ELSE IF i = 0
        THEN Reply(store, FALSE, "User not found")
        ELSE IF ~Matched(user.verifyToken, token)
        THEN Reply(store, FALSE, "Link in not valid")
        ELSE IF Expired(user.verifyTokenExpireAt, t)
        THEN Reply(store, FALSE, "Link is Expired")
        ELSE Out(MarkVerified(store, email), Json(TRUE, "Account verified"),
                 jwttoken, FALSE, NoMail, 0)

SigninVerifiedOnly(store, t, email, password) ==
    LET i == FindOne(store, email)
        user == store[i]
    IN  IF email = "" \/ password = ""
        THEN Reply(store, FALSE, "Email and password are required")
        ELSE IF i = 0
        THEN Reply(store, FALSE, "Invalid email")
        ELSE IF ~BcryptCompare(password, user.password)
        THEN Reply(store, FALSE, "Incorrect password")
        ELSE IF ~user.isAccountVerified
        THEN Reply(store, FALSE, "Account not verified")
        ELSE Out(store, Json(TRUE, ""), JwtSign(user.id, "", "", t), FALSE, NoMail, 0)

\* POST /singin
Signin(store, t, email, password) ==
    LET i == FindOne(store, email)
        user == store[i]
        token == JwtSign(user.id, "", "", t)
    IN  IF email = "" \/ password = ""
        THEN Reply(store, FALSE, "Email and password are required")
        ELSE IF i = 0
        THEN Reply(store, FALSE, "Invalid email")
        ELSE IF ~BcryptCompare(password, user.password)
        THEN Reply(store, FALSE, "Incorrect password")
        ELSE Out(store, Json(TRUE, ""), token, FALSE, NoMail, 0)

LogoutKeepsCookie(store) == Reply(store, TRUE, "Logged out")

\* POST /logout
Logout(store) == Out(store, Json(TRUE, "Logged out"), NoTok, TRUE, NoMail, 0)

-----------------------------------------------------------------------------
(* middlewares/userAuth.js, then isAuthenticated *)

\* a cookie somebody else made: a token signed with another key, and junk
Forged == [id |-> 1, email |-> "", name |-> "", iat |-> 0, exp |-> 0, sig |-> "bad"]
Malformed == [id |-> 0, email |-> "", name |-> "", iat |-> 0, exp |-> 0, sig |-> "malformed"]

\* req.body when userAuth runs.  express.json() of Express 4 leaves {} on a
\* request without a body; Express 5 (API_DOCUMENTATION.md names 5.1.0) leaves
\* req.body undefined unless a JSON body was parsed.
Bodies == {"object", "undefined"}

\* line 30: req.body.userId = tokenDecode.id, inside the try
SetUserId(body) ==
    IF body = "undefined"
    THEN "Cannot set properties of undefined (setting 'userId')"
    ELSE "next"

\* userAuth: "next" when next() is called, else the message of its response
userAuth(token, body, t) ==
    IF token = NoTok THEN "Not Authorized Login Again."
    ELSE IF JwtVerify(token, t) # "ok" THEN JwtVerify(token, t)
    ELSE IF token.id # 0 THEN SetUserId(body)
    ELSE "Not Authorized Login Again."

\* POST /is-auth: userAuth, and isAuthenticated when userAuth calls next()
isAuthenticated(store, t, token, body) ==
    IF userAuth(token, body, t) = "next"
    THEN Reply(store, TRUE, "")
    ELSE Reply(store, FALSE, userAuth(token, body, t))

-----------------------------------------------------------------------------
(* controllers/Auth.js: password reset *)

SetResetTokenLater(store, email, resetToken, expireAt) ==
    LET i == FindOne(store, email)
    IN  IF i = 0 THEN store
        ELSE [store EXCEPT ![i].resetToken = resetToken,
                           ![i].resetTokenExpireAt = expireAt + TOKEN_TTL_MS]

SetResetTokenIfNone(store, email, resetToken, expireAt) ==
    LET i == FindOne(store, email)
    IN  IF i = 0 \/ store[i].resetToken # "" THEN store
        ELSE [store EXCEPT ![i].resetToken = resetToken,
                           ![i].resetTokenExpireAt = expireAt]

\* UserModel.updateOne({email}, {resetToken, resetTokenExpireAt})
SetResetToken(store, email, resetToken, expireAt) ==
    LET i == FindOne(store, email)
    IN  IF i = 0 THEN store
        ELSE [store EXCEPT ![i].resetToken = resetToken,
                           ![i].resetTokenExpireAt = expireAt]

\* POST /send-reset-token
sendResetToken(store, n, t, email, mailOk) ==
    LET i == FindOne(store, email)
        resetToken == RandomUUID(n)
    IN  IF email = ""
        THEN Reply(store, FALSE, "Email required")
        ELSE IF i = 0
        THEN Reply(store, FALSE, "User not found")
        ELSE Out(SetResetToken(store, email, resetToken, t + TOKEN_TTL_MS),
                 Json(TRUE, "Reset link sent to email"), NoTok, FALSE,
                 [to |-> email, token |-> resetToken, delivered |-> mailOk], 1)

\* line 360: user.resetToken==='' || user.resetToken!==resetToken
InvalidLink(stored, resetToken) == stored = "" \/ ~StrictEq(stored, resetToken)

ClearResetTokenOnly(store, i) == [store EXCEPT ![i].resetToken = ""]

\* lines 370-372: user.resetToken = ''; user.resetTokenExpireAt = 0; user.save()
ClearResetToken(store, i) ==
    [store EXCEPT ![i].resetToken = "", ![i].resetTokenExpireAt = 0]

\* POST /verify-reset-token
verifyResetToken(store, t, email, resetToken) ==
    LET i == FindOne(store, email)
        user == store[i]
    IN  IF email = "" \/ Falsy(resetToken)
        THEN Reply(store, FALSE, "Missing Details.")
        ELSE IF i = 0
        THEN Reply(store, FALSE, "User not found.")
        ELSE IF InvalidLink(user.resetToken, resetToken)
        THEN Reply(store, FALSE, "Invalid Link.")
        ELSE IF Expired(user.resetTokenExpireAt, t)
        THEN Reply(store, FALSE, "Link expired")
        ELSE Reply(ClearResetToken(store, i), TRUE, "Enter new password")

SetPasswordAndClear(store, i, newPassword) ==
    [store EXCEPT ![i].password = BcryptHash(newPassword),
                  ![i].resetToken = "", ![i].resetTokenExpireAt = 0]

SetPasswordUnverifies(store, i, newPassword) ==
    [store EXCEPT ![i].password = BcryptHash(newPassword),
                  ![i].isAccountVerified = FALSE]

SetPasswordPlain(store, i, newPassword) ==
    [store EXCEPT ![i].password = newPassword]

\* lines 405-407: user.password = await bcrypt.hash(newPassword, 10); user.save()
SetPassword(store, i, newPassword) ==
    [store EXCEPT ![i].password = BcryptHash(newPassword)]

\* POST /reset-password
resetPassword(store, email, newPassword) ==
    LET i == FindOne(store, email)
    IN  IF newPassword = ""
        THEN Reply(store, FALSE, "New password is required.")
        ELSE IF i = 0
        THEN Reply(store, FALSE, "User not found.")
        ELSE Reply(SetPassword(store, i, newPassword), TRUE,
                   "Password has been reset successfully.")

-----------------------------------------------------------------------------
(* controllers/oAuthController.js *)

\* POST /oauth/google/login: res.redirect(googleUrl)
login(store) ==
    Out(store, [kind |-> "redirect", success |-> FALSE, message |-> ""],
        NoTok, FALSE, NoMail, 0)

\* What the identity provider does with the calls of lines 55 and 59
IdpOutcomes == {"ok", "exchangeFailed", "profileFailed"}

\* An exception that leaves the async handler: no statement of the handler
\* answers.  Express 4 leaves the rejection unhandled (no response), Express 5
\* passes it to its default error handler (a 500 page, no JSON body).
Escapes == {"unhandledRejection", "defaultErrorHandler"}

Escaped(store, escape) ==
    Out(store, [kind |-> escape, success |-> FALSE, message |-> ""],
        NoTok, FALSE, NoMail, 0)

\* line 66: jwt.sign({email, name}, ...)
OAuthToken(email, name, t) == JwtSign(0, email, name, t)

\* as SaveOAuthUser, without isAccountVerified: true
SaveOAuthUserUnverified(store, t, email, name, escape) ==
    IF DuplicateKey(store, NewUser(NewId(store), email, name))
    THEN Escaped(store, escape)
    ELSE Out(Append(store, NewUser(NewId(store), email, name)),
             Json(TRUE, "User registered successfully"),
             OAuthToken(email, name, t), FALSE, NoMail, 0)

\* verifyToken, lines 68-85: the branch of a findOne that returned null
SaveOAuthUser(store, t, email, name, escape) ==
    LET newUser == [NewUser(NewId(store), email, name) EXCEPT !.isAccountVerified = TRUE]
    IN  IF DuplicateKey(store, newUser)
        THEN \* newUser.save() throws and nothing catches it
             Escaped(store, escape)
        ELSE Out(Append(store, newUser), Json(TRUE, "User registered successfully"),
                 OAuthToken(email, name, t), FALSE, NoMail, 0)

\* as LoginOAuthUser, bringing the record up to date with the profile
LinkOAuthUser(store, t, email, name) ==
    Out([i \in DOMAIN store |->
            IF store[i].email = email
            THEN [store[i] EXCEPT !.name = name, !.isAccountVerified = TRUE]
            ELSE store[i]],
        Json(TRUE, "User logged in successfully"),
        OAuthToken(email, name, t), FALSE, NoMail, 0)

\* verifyToken, lines 86-96: the branch of a findOne that returned a record
LoginOAuthUser(store, t, email, name) ==
    Out(store, Json(TRUE, "User logged in successfully"),
        OAuthToken(email, name, t), FALSE, NoMail, 0)

\* POST /oauth/google/callback
verifyToken(store, t, idp, email, name, escape) ==
    LET user == FindOne(store, email)
    IN  IF idp # "ok"
        THEN \* axios.post / axios.get rejects and nothing catches it
             Escaped(store, escape)
        ELSE IF user = 0
        THEN SaveOAuthUser(store, t, email, name, escape)
        ELSE LoginOAuthUser(store, t, email, name)

-----------------------------------------------------------------------------
(* The server: one request at a time, each served to completion *)

NoFlow == [stage |-> "none", pw |-> "", old |-> ""]

\* a slot that serves no request
Idle == [op |-> "idle", pc |-> "idle", email |-> "", name |-> "", password |-> "",
         token |-> "",
         res |-> [kind |-> "none", success |-> FALSE, message |-> ""]]

Slots == 1..MaxReq

\* server.js has run to its end: connected and listening
Up == [phase |-> "listening", db |-> "connected"]

Init ==
    /\ users = <<>>
    /\ now \in StartTimes
    /\ nextUuid = 1
    /\ flow = [e \in Emails |-> NoFlow]
    /\ consumed = {}
    /\ ticks = 0
    /\ inflight = [s \in Slots |-> Idle]
    /\ boot = Up

\* A request is served with the effects out
Serve(out) ==
    /\ nextUuid + out.uuids <= MaxUuid + 1
    /\ nextUuid' = nextUuid + out.uuids
    /\ users' = out.users
    /\ UNCHANGED <<now, ticks, boot>>

PostRegister(name, email, password, mailOk) ==
    /\ Serve(register(users, nextUuid, now, name, email, password, mailOk))
    /\ UNCHANGED <<flow, consumed, inflight>>

PostAccountVerify(token, email) ==
    LET out == verifyAccount(users, now, token, email)
    IN  /\ Serve(out)
        /\ consumed' = IF out.res.success
                       THEN consumed \cup {<<"verifyAccount", email, token>>}
                       ELSE consumed
        /\ UNCHANGED <<flow, inflight>>

PostSingin(email, password) ==
    /\ Serve(Signin(users, now, email, password))
    /\ UNCHANGED <<flow, consumed, inflight>>

PostLogout ==
    /\ Serve(Logout(users))
    /\ UNCHANGED <<flow, consumed, inflight>>

PostIsAuth(token, body) ==
    /\ Serve(isAuthenticated(users, now, token, body))
    /\ UNCHANGED <<flow, consumed, inflight>>

PostSendResetToken(email, mailOk) ==
    /\ Serve(sendResetToken(users, nextUuid, now, email, mailOk))
    /\ UNCHANGED <<flow, consumed, inflight>>

PostVerifyResetToken(email, resetToken) ==
    LET out == verifyResetToken(users, now, email, resetToken)
    IN  /\ Serve(out)
        /\ consumed' = IF out.res.success
                       THEN consumed \cup {<<"verifyResetToken", email, resetToken>>}
                       ELSE consumed
        /\ flow' = IF out.res.success
                   THEN [flow EXCEPT ![email] = [NoFlow EXCEPT !.stage = "verified"]]
                   ELSE flow
        /\ UNCHANGED inflight

PostResetPassword(email, newPassword) ==
    LET out == resetPassword(users, email, newPassword)
    IN  /\ Serve(out)
        /\ flow' = IF ~out.res.success THEN flow
                   ELSE IF flow[email].stage = "verified"
                   THEN [flow EXCEPT ![email] =
                           [stage |-> "committed", pw |-> newPassword,
                            old |-> users[FindOne(users, email)].password]]
                   ELSE [flow EXCEPT ![email] = NoFlow]
        /\ UNCHANGED <<consumed, inflight>>

PostGoogleLogin ==
    /\ Serve(login(users))
    /\ UNCHANGED <<flow, consumed, inflight>>

PostGoogleCallback(idp, email, name, escape) ==
    /\ Serve(verifyToken(users, now, idp, email, name, escape))
    /\ UNCHANGED <<flow, consumed, inflight>>

-----------------------------------------------------------------------------
(* The clock.  Date.now() never goes back; between two requests it moves to *)
(* an instant around an expiry that the collection holds.                   *)

ExpiryInstants ==
    UNION {{users[i].verifyTokenExpireAt, users[i].resetTokenExpireAt} : i \in DOMAIN users}
        \ {0}

Instants == UNION {{e - 1, e, e + 1} : e \in ExpiryInstants}

Tick ==
    /\ ticks < MaxTicks
    /\ \E t \in Instants : t > now /\ now' = t
    /\ ticks' = ticks + 1
    /\ UNCHANGED <<users, nextUuid, flow, consumed, inflight, boot>>

-----------------------------------------------------------------------------
(* Inputs of the requests *)

EmailInputs == Emails \cup {""}
NameInputs == Names \cup {""}
PasswordInputs == Passwords \cup {""}

IssuedUuids == {RandomUUID(n) : n \in 1..(nextUuid - 1)}

TokenInputs ==
    {JsStr(s) : s \in IssuedUuids \cup {"", "bogus"}}
    \cup {JsArr(s) : s \in IssuedUuids \cup {""}}

\* a cookie the server made for a user at the present time, none, or one made elsewhere
CookieInputs ==
    {JwtSign(users[i].id, "", "", now) : i \in DOMAIN users}
    \cup {OAuthToken(users[i].email, users[i].name, now) : i \in DOMAIN users}
    \cup {NoTok, Forged, Malformed}

\* the profile Google returns, when it returns one
Profiles(idp) ==
    IF idp = "ok" THEN [email : Emails, name : ProfileNames]
    ELSE {[email |-> "", name |-> ""]}

\* at most one field of a request is missing
OneMissing(fields) == Cardinality({k \in DOMAIN fields : fields[k] = ""}) <= 1

Next ==
    \/ \E n \in NameInputs, e \in EmailInputs, p \in PasswordInputs, m \in BOOLEAN :
            OneMissing(<<n, e, p>>) /\ PostRegister(n, e, p, m)
    \/ \E t \in TokenInputs, e \in EmailInputs :
            OneMissing(<<t.s, e>>) /\ PostAccountVerify(t, e)
    \/ \E e \in EmailInputs, p \in PasswordInputs :
            OneMissing(<<e, p>>) /\ PostSingin(e, p)
    \/ PostLogout
    \/ \E c \in CookieInputs, b \in Bodies : PostIsAuth(c, b)
    \/ \E e \in EmailInputs, m \in BOOLEAN : PostSendResetToken(e, m)
    \/ \E e \in EmailInputs, t \in TokenInputs :
            OneMissing(<<e, t.s>>) /\ PostVerifyResetToken(e, t)
    \/ \E e \in EmailInputs, p \in PasswordInputs :
            OneMissing(<<e, p>>) /\ PostResetPassword(e, p)
    \/ PostGoogleLogin
    \/ \E o \in IdpOutcomes, x \in Escapes : \E pr \in Profiles(o) :
            PostGoogleCallback(o, pr.email, pr.name, x)
    \/ Tick

Spec == Init /\ [][Next]_vars

-----------------------------------------------------------------------------
(* Interleaved requests.  A handler runs until an await and goes on after   *)
(* it; between the findOne of one request and its save, the other requests  *)
(* take their steps.  /register and the OAuth callback are followed through *)
(* their two store calls: findOne (lines 68; 63) and save (lines 92; 75).   *)
(* /account-verify and /verify-reset-token are followed through theirs:     *)
(* findOne (lines 141; 354) and updateOne or save (lines 158; 372).  The    *)
(* other requests that write tokens are served between these steps whole.   *)

\* a request arrives at slot s and runs to its findOne
Receive(s, op, email, name, password) ==
    /\ inflight[s].pc = "idle"
    /\ inflight' = [inflight EXCEPT ![s] =
                      [Idle EXCEPT !.op = op, !.pc = "find", !.email = email,
                                   !.name = name, !.password = password]]
    /\ UNCHANGED <<users, now, nextUuid, flow, consumed, ticks, boot>>

\* register, lines 68-71: findOne answers
registerFind(s) ==
    LET r == inflight[s]
    IN  /\ r.op = "register" /\ r.pc = "find"
        /\ inflight' = [inflight EXCEPT ![s] =
                IF FindOne(users, r.email) # 0
                THEN [r EXCEPT !.pc = "done", !.res = Json(FALSE, "User already exists")]
                ELSE [r EXCEPT !.pc = "save"]]
        /\ UNCHANGED <<users, now, nextUuid, flow, consumed, ticks, boot>>

\* register, lines 73-116: save, mail, response
registerSave(s, mailOk) ==
    LET r == inflight[s]
        out == SaveUser(users, nextUuid, now, r.name, r.email, r.password, mailOk)
    IN  /\ r.op = "register" /\ r.pc = "save"
        /\ Serve(out)
        /\ inflight' = [inflight EXCEPT ![s] = [r EXCEPT !.pc = "done", !.res = out.res]]
        /\ UNCHANGED <<flow, consumed>>

\* verifyToken, lines 63 and 86-96: findOne answers
verifyTokenFind(s) ==
    LET r == inflight[s]
    IN  /\ r.op = "oauth" /\ r.pc = "find"
        /\ inflight' = [inflight EXCEPT ![s] =
                IF FindOne(users, r.email) # 0
                THEN [r EXCEPT !.pc = "done",
                               !.res = LoginOAuthUser(users, now, r.email, r.name).res]
                ELSE [r EXCEPT !.pc = "save"]]
        /\ UNCHANGED <<users, now, nextUuid, flow, consumed, ticks, boot>>

\* verifyToken, lines 68-85: save, cookie, response
verifyTokenSave(s, escape) ==
    LET r == inflight[s]
        out == SaveOAuthUser(users, now, r.email, r.name, escape)
    IN  /\ r.op = "oauth" /\ r.pc = "save"
        /\ Serve(out)
        /\ inflight' = [inflight EXCEPT ![s] = [r EXCEPT !.pc = "done", !.res = out.res]]
        /\ UNCHANGED <<flow, consumed>>

\* a request with a token from a mailed link arrives at slot s
ReceiveLink(s, op, email, token) ==
    /\ inflight[s].pc = "idle"
    /\ inflight' = [inflight EXCEPT ![s] =
                      [Idle EXCEPT !.op = op, !.pc = "find", !.email = email,
                                   !.token = token]]
    /\ UNCHANGED <<users, now, nextUuid, flow, consumed, ticks, boot>>

\* verifyAccount, lines 141-155: findOne answers, the token is compared and
\* its expiry checked against the record that was read
verifyAccountFind(s) ==
    LET r == inflight[s]
        out == verifyAccount(users, now, JsStr(r.token), r.email)
    IN  /\ r.op = "verifyAccount" /\ r.pc = "find"
        /\ inflight' = [inflight EXCEPT ![s] =
                IF out.res.success THEN [r EXCEPT !.pc = "save"]
                ELSE [r EXCEPT !.pc = "done", !.res = out.res]]
        /\ UNCHANGED <<users, now, nextUuid, flow, consumed, ticks, boot>>

\* verifyAccount, lines 158-178: updateOne({email}, ...), cookie, response
verifyAccountUpdate(s) ==
    LET r == inflight[s]
    IN  /\ r.op = "verifyAccount" /\ r.pc = "save"
        /\ users' = MarkVerified(users, r.email)
        /\ inflight' = [inflight EXCEPT ![s] =
                [r EXCEPT !.pc = "done", !.res = Json(TRUE, "Account verified")]]
        /\ consumed' = consumed \cup {<<"verifyAccount", r.email, JsStr(r.token)>>}
        /\ UNCHANGED <<now, nextUuid, flow, ticks, boot>>

\* verifyResetToken, lines 354-367: findOne answers, the checks on the
\* document that was read
verifyResetTokenFind(s) ==
    LET r == inflight[s]
        out == verifyResetToken(users, now, r.email, JsStr(r.token))
    IN  /\ r.op = "verifyResetToken" /\ r.pc = "find"
        /\ inflight' = [inflight EXCEPT ![s] =
                IF out.res.success THEN [r EXCEPT !.pc = "save"]
                ELSE [r EXCEPT !.pc = "done", !.res = out.res]]
        /\ UNCHANGED <<users, now, nextUuid, flow, consumed, ticks, boot>>

\* verifyResetToken, lines 370-374: the two fields set on the document,
\* save() writes them to the record of its _id, response
verifyResetTokenSave(s) ==
    LET r == inflight[s]
    IN  /\ r.op = "verifyResetToken" /\ r.pc = "save"
        /\ users' = ClearResetToken(users, FindOne(users, r.email))
        /\ inflight' = [inflight EXCEPT ![s] =
                [r EXCEPT !.pc = "done", !.res = Json(TRUE, "Enter new password")]]
        /\ consumed' = consumed \cup {<<"verifyResetToken", r.email, JsStr(r.token)>>}
        /\ flow' = [flow EXCEPT ![r.email] = [NoFlow EXCEPT !.stage = "verified"]]
        /\ UNCHANGED <<now, nextUuid, ticks, boot>>

NextRace ==
    \/ \E s \in Slots, e \in Emails, n \in Names, p \in Passwords :
            Receive(s, "register", e, n, p)
    \/ \E s \in Slots, e \in Emails, n \in ProfileNames :
            Receive(s, "oauth", e, n, "")
    \/ \E s \in Slots : registerFind(s)
    \/ \E s \in Slots, m \in BOOLEAN : registerSave(s, m)
    \/ \E s \in Slots : verifyTokenFind(s)
    \/ \E s \in Slots, x \in Escapes : verifyTokenSave(s, x)
    \/ \E s \in Slots, e \in Emails, t \in IssuedUuids :
            ReceiveLink(s, "verifyAccount", e, t)
    \/ \E s \in Slots, e \in Emails, t \in IssuedUuids :
            ReceiveLink(s, "verifyResetToken", e, t)
    \/ \E s \in Slots : verifyAccountFind(s)
    \/ \E s \in Slots : verifyAccountUpdate(s)
    \/ \E s \in Slots : verifyResetTokenFind(s)
    \/ \E s \in Slots : verifyResetTokenSave(s)
    \/ \E n \in Names, e \in Emails, p \in Passwords, m \in BOOLEAN :
            PostRegister(n, e, p, m)
    \/ \E e \in Emails, m \in BOOLEAN : PostSendResetToken(e, m)

SpecRace == Init /\ [][NextRace]_vars

-----------------------------------------------------------------------------
(* The process from its start (server.js:1-42): connect, then mount the     *)
(* router and listen; a request is dispatched by method and path.  A URL is *)
(* the sequence of its path segments.  The clock stands still here.         *)

\* what mongoose.connect does
DbOutcomes == {"connected", "failed"}

connectdbCaught(outcome) == [db |-> outcome, promise |-> "resolved"]

\* config/connectDB.js: await mongoose.connect(...), nothing catches
connectdb(outcome) ==
    [db |-> outcome,
     promise |-> IF outcome = "connected" THEN "resolved" ELSE "rejected"]

\* server.js:18-42: await connectdb(); a rejection of the top-level await ends
\* the process before app.use and app.listen run
server(outcome) ==
    IF connectdb(outcome).promise = "resolved"
    THEN [phase |-> "listening", db |-> connectdb(outcome).db]
    ELSE [phase |-> "exited", db |-> connectdb(outcome).db]

Start(outcome) ==
    /\ boot.phase = "starting"
    /\ boot' = server(outcome)
    /\ UNCHANGED <<users, now, nextUuid, flow, consumed, ticks, inflight>>

\* routes/authRoutes.js: the handler of a method and a path below the mount
\* point, "next" when no route matches
authRouter(method, path) ==
    IF method # "POST" THEN "next"
    ELSE IF path = <<"register">> THEN "register"
    ELSE IF path = <<"account-verify">> THEN "verifyAccount"
    ELSE IF path = <<"singin">> THEN "Signin"
    ELSE IF path = <<"logout">> THEN "Logout"
    ELSE IF path = <<"is-auth">> THEN "isAuthenticated"
    ELSE IF path = <<"send-reset-token">> THEN "sendResetToken"
    ELSE IF path = <<"verify-reset-token">> THEN "verifyResetToken"
    ELSE IF path = <<"reset-password">> THEN "resetPassword"
    ELSE IF path = <<"oauth", "google", "login">> THEN "login"
    ELSE IF path = <<"oauth", "google", "callback">> THEN "verifyToken"
    ELSE "next"

\* server.js:32-37: the router mounted at /api/auth, then GET /; Express
\* answers 404 when nothing matches
app(method, url) ==
    LET mounted == Len(url) >= 2 /\ url[1] = "api" /\ url[2] = "auth"
        routed == IF mounted THEN authRouter(method, SubSeq(url, 3, Len(url)))
                  ELSE "next"
    IN  IF routed # "next" THEN routed
        ELSE IF method = "GET" /\ url = <<>> THEN "health"
        ELSE "notFound"

Methods == {"POST", "GET"}

Paths ==
    {<<"register">>, <<"account-verify">>, <<"signin">>, <<"singin">>, <<"logout">>,
     <<"is-auth">>, <<"send-reset-token">>, <<"verify-reset-token">>,
     <<"reset-password">>, <<"oauth", "google", "login">>,
     <<"oauth", "google", "callback">>}

Urls == {<<"api", "auth">> \o p : p \in Paths} \cup {<<>>, <<"signin">>}

\* a request for method and url reaches the listening server
HttpRequest(method, url) ==
    LET h == app(method, url)
    IN  /\ boot.phase = "listening"
        /\ \/ /\ h = "register"
              /\ \E n \in NameInputs, e \in EmailInputs, p \in PasswordInputs, m \in BOOLEAN :
                    OneMissing(<<n, e, p>>) /\ PostRegister(n, e, p, m)
           \/ /\ h = "verifyAccount"
              /\ \E t \in TokenInputs, e \in EmailInputs :
                    OneMissing(<<t.s, e>>) /\ PostAccountVerify(t, e)
           \/ /\ h = "Signin"
              /\ \E e \in EmailInputs, p \in PasswordInputs :
                    OneMissing(<<e, p>>) /\ PostSingin(e, p)
           \/ h = "Logout" /\ PostLogout
           \/ h = "isAuthenticated" /\ \E c \in CookieInputs, b \in Bodies : PostIsAuth(c, b)
           \/ h = "sendResetToken" /\ \E e \in EmailInputs, m \in BOOLEAN : PostSendResetToken(e, m)
           \/ /\ h = "verifyResetToken"
              /\ \E e \in EmailInputs, t \in TokenInputs :
                    OneMissing(<<e, t.s>>) /\ PostVerifyResetToken(e, t)
           \/ /\ h = "resetPassword"
              /\ \E e \in EmailInputs, p \in PasswordInputs :
                    OneMissing(<<e, p>>) /\ PostResetPassword(e, p)
           \/ h = "login" /\ PostGoogleLogin
           \/ /\ h = "verifyToken"
              /\ \E o \in IdpOutcomes, x \in Escapes : \E pr \in Profiles(o) :
                    PostGoogleCallback(o, pr.email, pr.name, x)
           \/ h \in {"health", "notFound"} /\ UNCHANGED vars

InitApp ==
    /\ users = <<>>
    /\ now \in StartTimes
    /\ nextUuid = 1
    /\ flow = [e \in Emails |-> NoFlow]
    /\ consumed = {}
    /\ ticks = 0
    /\ inflight = [s \in Slots |-> Idle]
    /\ boot = [phase |-> "starting", db |-> "pending"]

NextApp ==
    \/ \E o \in DbOutcomes : Start(o)
    \/ \E m \in Methods, u \in Urls : HttpRequest(m, u)

SpecApp == InitApp /\ [][NextApp]_vars

-----------------------------------------------------------------------------
(* Failures of what the handlers call.  A call to the store can reject (the *)
(* connection is lost after startup), and jwt.sign throws when JWT_SECRET   *)
(* is not in the environment that dotenv loaded (server.js:4).  Each        *)
(* handler's try/catch answers {success: false, message: error.message}.    *)

\* process.env.JWT_SECRET
Secrets == {"set", "unset"}

\* the store call of a request that rejects: none, its findOne, or its write
Faults == {"none", "read", "write"}

\* error.message of a rejected store call
StoreError == "store error"

\* error.message of jwt.sign without a key
SignError == "secretOrPrivateKey must have a value"

\* the process is up with JWT_SECRET as given
Env(secret) == [phase |-> "listening", db |-> "connected", secret |-> secret]

\* register, lines 58-121
registerEnv(store, n, t, name, email, password, mailOk, fault) ==
    LET out == register(store, n, t, name, email, password, mailOk)
    IN  IF name = "" \/ email = "" \/ password = "" THEN out
        ELSE IF fault = "read" THEN Reply(store, FALSE, StoreError)
        ELSE IF ~out.res.success THEN out
        ELSE IF fault = "write"
        THEN \* user.save() rejects (line 92): lines 95-114 do not run
             Out(store, Json(FALSE, StoreError), NoTok, FALSE, NoMail, 1)
        ELSE out

\* verifyAccount, lines 131-182: updateOne (line 158) comes before jwt.sign
\* (line 168)
verifyAccountEnv(store, t, token, email, fault, secret) ==
    LET out == verifyAccount(store, t, token, email)
    IN  IF Falsy(token) \/ email = "" THEN out
        ELSE IF fault = "read" THEN Reply(store, FALSE, StoreError)
        ELSE IF ~out.res.success THEN out
        ELSE IF fault = "write" THEN Reply(store, FALSE, StoreError)
        ELSE IF secret = "unset" THEN Reply(out.users, FALSE, SignError)
        ELSE out

\* Signin, lines 192-230
SigninEnv(store, t, email, password, fault, secret) ==
    LET out == Signin(store, t, email, password)
    IN  IF email = "" \/ password = "" THEN out
        ELSE IF fault = "read" THEN Reply(store, FALSE, StoreError)
        ELSE IF ~out.res.success THEN out
        ELSE IF secret = "unset" THEN Reply(store, FALSE, SignError)
        ELSE out

sendResetTokenMailFirst(store, n, t, email, mailOk, fault) ==
    LET out == sendResetToken(store, n, t, email, mailOk)
    IN  IF email = "" THEN out
        ELSE IF fault = "read" THEN Reply(store, FALSE, StoreError)
        ELSE IF ~out.res.success THEN out
        ELSE IF fault = "write"
        THEN Out(store, Json(FALSE, StoreError), NoTok, FALSE, out.mail, 1)
        ELSE out

\* sendResetToken, lines 281-334
sendResetTokenEnv(store, n, t, email, mailOk, fault) ==
    LET out == sendResetToken(store, n, t, email, mailOk)
    IN  IF email = "" THEN out
        ELSE IF fault = "read" THEN Reply(store, FALSE, StoreError)
        ELSE IF ~out.res.success THEN out
        ELSE IF fault = "write"
        THEN \* updateOne rejects (line 299): lines 309-327 do not run
             Out(store, Json(FALSE, StoreError), NoTok, FALSE, NoMail, 1)
        ELSE out

\* verifyResetToken, lines 344-379
verifyResetTokenEnv(store, t, email, resetToken, fault) ==
    LET out == verifyResetToken(store, t, email, resetToken)
    IN  IF email = "" \/ Falsy(resetToken) THEN out
        ELSE IF fault = "read" THEN Reply(store, FALSE, StoreError)
        ELSE IF ~out.res.success THEN out
        ELSE IF fault = "write" THEN Reply(store, FALSE, StoreError)
        ELSE out

\* resetPassword, lines 389-413
resetPasswordEnv(store, email, newPassword, fault) ==
    LET out == resetPassword(store, email, newPassword)
    IN  IF newPassword = "" THEN out
        ELSE IF fault = "read" THEN Reply(store, FALSE, StoreError)
        ELSE IF ~out.res.success THEN out
        ELSE IF fault = "write" THEN Reply(store, FALSE, StoreError)
        ELSE out

FaultyRegister(name, email, password, mailOk, fault) ==
    /\ Serve(registerEnv(users, nextUuid, now, name, email, password, mailOk, fault))
    /\ UNCHANGED <<flow, consumed, inflight>>

FaultyAccountVerify(token, email, fault) ==
    LET out == verifyAccountEnv(users, now, token, email, fault, boot.secret)
    IN  /\ Serve(out)
        /\ consumed' = IF out.res.success
                       THEN consumed \cup {<<"verifyAccount", email, token>>}
                       ELSE consumed
        /\ UNCHANGED <<flow, inflight>>

FaultySingin(email, password, fault) ==
    /\ Serve(SigninEnv(users, now, email, password, fault, boot.secret))
    /\ UNCHANGED <<flow, consumed, inflight>>

FaultySendResetToken(email, mailOk, fault) ==
    /\ Serve(sendResetTokenEnv(users, nextUuid, now, email, mailOk, fault))
    /\ UNCHANGED <<flow, consumed, inflight>>

FaultyVerifyResetToken(email, resetToken, fault) ==
    LET out == verifyResetTokenEnv(users, now, email, resetToken, fault)
    IN  /\ Serve(out)
        /\ consumed' = IF out.res.success
                       THEN consumed \cup {<<"verifyResetToken", email, resetToken>>}
                       ELSE consumed
        /\ flow' = IF out.res.success
                   THEN [flow EXCEPT ![email] = [NoFlow EXCEPT !.stage = "verified"]]
                   ELSE flow
        /\ UNCHANGED inflight

FaultyResetPassword(email, newPassword, fault) ==
    LET out == resetPasswordEnv(users, email, newPassword, fault)
    IN  /\ Serve(out)
        /\ flow' = IF ~out.res.success THEN flow
                   ELSE IF flow[email].stage = "verified"
                   THEN [flow EXCEPT ![email] =
                           [stage |-> "committed", pw |-> newPassword,
                            old |-> users[FindOne(users, email)].password]]
                   ELSE [flow EXCEPT ![email] = NoFlow]
        /\ UNCHANGED <<consumed, inflight>>

InitFault ==
    /\ users = <<>>
    /\ now \in StartTimes
    /\ nextUuid = 1
    /\ flow = [e \in Emails |-> NoFlow]
    /\ consumed = {}
    /\ ticks = 0
    /\ inflight = [s \in Slots |-> Idle]
    /\ boot \in {Env(k) : k \in Secrets}

NextFault ==
    \/ \E n \in NameInputs, e \in EmailInputs, p \in PasswordInputs, m \in BOOLEAN,
          f \in Faults : OneMissing(<<n, e, p>>) /\ FaultyRegister(n, e, p, m, f)
    \/ \E t \in TokenInputs, e \in EmailInputs, f \in Faults :
            OneMissing(<<t.s, e>>) /\ FaultyAccountVerify(t, e, f)
    \/ \E e \in EmailInputs, p \in PasswordInputs, f \in Faults :
            OneMissing(<<e, p>>) /\ FaultySingin(e, p, f)
    \/ \E e \in EmailInputs, m \in BOOLEAN, f \in Faults : FaultySendResetToken(e, m, f)
    \/ \E e \in EmailInputs, t \in TokenInputs, f \in Faults :
            OneMissing(<<e, t.s>>) /\ FaultyVerifyResetToken(e, t, f)
    \/ \E e \in EmailInputs, p \in PasswordInputs, f \in Faults :
            OneMissing(<<e, p>>) /\ FaultyResetPassword(e, p, f)
    \/ Tick

SpecFault == InitFault /\ [][NextFault]_vars

-----------------------------------------------------------------------------
(* Properties.  They speak of the collection through Has and Rec, and of a  *)
(* handler through what it returns in the state at hand.                    *)

Has(store, email) == \E i \in DOMAIN store : store[i].email = email

Rec(store, email) == store[CHOOSE i \in DOMAIN store : store[i].email = email]

Invalid(out, msg) == out.res = Json(FALSE, msg) /\ out.setCookie = NoTok

\* C1: once a /account-verify (resp. /verify-reset-token) request has succeeded,
\* the same (email, token) request is answered "Link in not valid" (resp.
\* "Invalid Link."), in every later state: never success, never the expired answer.
C1_SingleUse ==
    \A c \in consumed :
        /\ c[1] = "verifyAccount" =>
              Invalid(verifyAccount(users, now, c[3], c[2]), "Link in not valid")
        /\ c[1] = "verifyResetToken" =>
              Invalid(verifyResetToken(users, now, c[2], c[3]), "Invalid Link.")

\* a verification token and a reset token were both consumed, the clock has
\* moved since, and the two requests are now refused
C1_Witness ==
    /\ ticks > 0
    /\ \E c, d \in consumed :
        /\ c[1] = "verifyAccount" /\ d[1] = "verifyResetToken"
        /\ ~verifyAccount(users, now, c[3], c[2]).res.success
        /\ ~verifyResetToken(users, now, d[2], d[3]).res.success

\* C2: a request carrying exactly the pending token of an existing record gets
\* the expired answer when now > expiresAt and succeeds when now <= expiresAt.
C2_ExpiryBoundary ==
    \A i \in DOMAIN users :
        LET u == users[i]
            va == verifyAccount(users, now, JsStr(u.verifyToken), u.email)
            vr == verifyResetToken(users, now, u.email, JsStr(u.resetToken))
        IN  /\ u.verifyToken # "" =>
                IF now > u.verifyTokenExpireAt
                THEN Invalid(va, "Link is Expired")
                ELSE va.res = Json(TRUE, "Account verified")
            /\ u.resetToken # "" =>
                IF now > u.resetTokenExpireAt
                THEN Invalid(vr, "Link expired")
                ELSE vr.res = Json(TRUE, "Enter new password")

\* the clock stands exactly at the expiry of a pending verification token and
\* of a pending reset token, and both requests succeed
C2_Witness ==
    \E i, j \in DOMAIN users :
        /\ users[i].verifyToken # "" /\ now = users[i].verifyTokenExpireAt
        /\ users[j].resetToken # "" /\ now = users[j].resetTokenExpireAt
        /\ verifyAccount(users, now, JsStr(users[i].verifyToken), users[i].email).res.success
        /\ verifyResetToken(users, now, users[j].email, JsStr(users[j].resetToken)).res.success

\* The session cookies that the issuing handlers (verifyAccount, Signin and both
\* branches of the OAuth callback) set when asked in the state at hand
IssuedCookies ==
    ({verifyAccount(users, now, t, e).setCookie : t \in TokenInputs, e \in Emails}
     \cup {Signin(users, now, e, p).setCookie : e \in Emails, p \in Passwords}
     \cup {verifyToken(users, now, "ok", e, n, x).setCookie :
              e \in Emails, n \in ProfileNames, x \in Escapes})
    \ {NoTok}

\* C3: every session cookie an issuing handler sets carries a subject id, and
\* userAuth lets /is-auth run whenever the cookie is presented before its expiry.
C3_IssuedCookieAccepted ==
    \A c \in IssuedCookies :
        /\ c.id # 0
        /\ \A t \in {now, now + 6 * DAY_MS, c.exp * MS_PER_S - 1} :
              t \div MS_PER_S < c.exp => isAuthenticated(users, t, c, "object").res.success

\* C4: a session cookie issued now (time T) is accepted at every time up to
\* T + 7 days and refused at every time after it, whatever the collection holds.
C4_SevenDayWindow ==
    \A c \in IssuedCookies :
        \A t \in {now, now + 6 * DAY_MS, now + 7 * DAY_MS, now + 7 * DAY_MS + 1,
                  now + 8 * DAY_MS} :
            /\ isAuthenticated(users, t, c, "object").res = isAuthenticated(<<>>, t, c, "object").res
            /\ isAuthenticated(users, t, c, "object").res.success <=> t <= now + 7 * DAY_MS

\* C5: /register with an e-mail that has a record answers "User already exists",
\* creates nothing, sends no mail and leaves the collection as it is.
C5_RegisterExisting ==
    \A n \in Names, e \in Emails, p \in Passwords, m \in BOOLEAN :
        Has(users, e) =>
            LET out == register(users, nextUuid, now, n, e, p, m)
            IN  /\ Invalid(out, "User already exists")
                /\ out.users = users
                /\ out.mail = NoMail
                /\ out.uuids = 0

\* a record made by /register and a record made by the OAuth callback both
\* exist, and /register is refused for each of them
C5_Witness ==
    \E i, j \in DOMAIN users :
        /\ users[i].password # "" /\ users[j].password = ""
        /\ \A k \in {i, j} :
              register(users, nextUuid, now, "Al", users[k].email, "pw1", TRUE).res
                  = Json(FALSE, "User already exists")

\* C6: /reset-password succeeds only when /verify-reset-token has succeeded for
\* that e-mail and the password has not been changed since.
C6_ResetNeedsVerifiedToken ==
    \A e \in Emails, p \in Passwords :
        resetPassword(users, e, p).res.success => flow[e].stage = "verified"

\* C7: after /send-reset-token, /verify-reset-token and /reset-password(newPw)
\* succeeded in that order, /singin with newPw succeeds and /singin with any
\* other password (the old one in particular) answers "Incorrect password".
C7_ResetThenSignin ==
    \A e \in Emails :
        flow[e].stage = "committed" =>
            /\ Signin(users, now, e, flow[e].pw).res = Json(TRUE, "")
            /\ Signin(users, now, e, flow[e].pw).setCookie.id = Rec(users, e).id
            /\ \A q \in Passwords \ {flow[e].pw} :
                  Invalid(Signin(users, now, e, q), "Incorrect password")

\* the reset sequence replaced pw1 by pw2; pw2 signs in and pw1 does not
C7_Witness ==
    \E e \in Emails :
        /\ flow[e] = [stage |-> "committed", pw |-> "pw2", old |-> BcryptHash("pw1")]
        /\ Signin(users, now, e, "pw2").res.success
        /\ ~Signin(users, now, e, "pw1").res.success

\* C8: /singin answers "Invalid email" when no record has the e-mail and
\* "Incorrect password" when the stored hash is not the hash of the password;
\* it succeeds and sets a cookie for the record's id exactly when the hash is
\* the password's; it never writes to the collection.
C8_SigninOutcomes ==
    \A e \in Emails, p \in Passwords :
        LET out == Signin(users, now, e, p)
        IN  /\ out.users = users
            /\ ~Has(users, e) => Invalid(out, "Invalid email")
            /\ (Has(users, e) /\ Rec(users, e).password # BcryptHash(p))
                  => Invalid(out, "Incorrect password")
            /\ (Has(users, e) /\ Rec(users, e).password = BcryptHash(p))
                  => /\ out.res = Json(TRUE, "")
                     /\ out.setCookie = JwtSign(Rec(users, e).id, "", "", now)
            /\ (out.res.success \/ out.setCookie # NoTok)
                  => (Has(users, e) /\ Rec(users, e).password = BcryptHash(p))

\* the three outcomes side by side: an e-mail without a record, a record with
\* another password, a record with an empty password, and a record that matches
C8_Witness ==
    \E e, f \in Emails :
        /\ Signin(<<>>, now, e, "pw1").res.message = "Invalid email"
        /\ Has(users, e) /\ Rec(users, e).password = BcryptHash("pw2")
        /\ Signin(users, now, e, "pw2").setCookie.id = Rec(users, e).id
        /\ Signin(users, now, e, "pw1").res.message = "Incorrect password"
        /\ Has(users, f) /\ Rec(users, f).password = ""
        /\ Signin(users, now, f, "pw1").res.message = "Incorrect password"

\* C9: when the identity provider fails (the code exchange or the profile
\* request), the OAuth callback answers a JSON body with success = false and a
\* message, creates no record and sets no cookie.
C9_UpstreamFailureReported ==
    \A o \in IdpOutcomes \ {"ok"}, x \in Escapes :
        LET out == verifyToken(users, now, o, "", "", x)
        IN  /\ out.res.kind = "json"
            /\ ~out.res.success
            /\ out.res.message # ""
            /\ out.users = users
            /\ out.setCookie = NoTok

\* C10: two successful OAuth callbacks in a row for an e-mail without a record
\* leave exactly one record with it: the first answers "User registered
\* successfully", the second "User logged in successfully", both with success
\* and a cookie; a callback for an e-mail with a record never adds one.
C10_OAuthIdempotent ==
    \A e \in Emails, n \in ProfileNames, x \in Escapes :
        LET first == verifyToken(users, now, "ok", e, n, x)
            second == verifyToken(first.users, now, "ok", e, n, x)
            count == Cardinality({i \in DOMAIN second.users : second.users[i].email = e})
        IN  /\ ~Has(users, e) =>
                  /\ first.res = Json(TRUE, "User registered successfully")
                  /\ Len(first.users) = Len(users) + 1
            /\ Has(users, e) => first.users = users
            /\ second.res = Json(TRUE, "User logged in successfully")
            /\ second.users = first.users
            /\ first.setCookie # NoTok /\ second.setCookie # NoTok
            /\ count = 1

\* a record that the first OAuth callback created is there, alone with its
\* e-mail, and the callback for it logs in without adding one
C10_Witness ==
    \E i \in DOMAIN users :
        /\ users[i].password = "" /\ users[i].isAccountVerified
        /\ Cardinality({j \in DOMAIN users : users[j].email = users[i].email}) = 1
        /\ verifyToken(users, now, "ok", users[i].email, "Alice", "unhandledRejection").res
              = Json(TRUE, "User logged in successfully")
        /\ \E f \in Emails : ~Has(users, f)

\* C11: an OAuth callback whose profile e-mail has a record writes nothing:
\* the collection, and so every field of that record, is as before, whatever
\* the profile's name and whether or not the record is verified.
C11_OAuthExistingUntouched ==
    \A e \in Emails, n \in Names \cup ProfileNames, x \in Escapes :
        Has(users, e) =>
            LET out == verifyToken(users, now, "ok", e, n, x)
            IN  /\ out.users = users
                /\ out.res = Json(TRUE, "User logged in successfully")
                /\ out.uuids = 0

\* a record made by /register, not verified, its token pending, under a name
\* that is not the profile's; the callback logs in
C11_Witness ==
    \E i \in DOMAIN users :
        /\ ~users[i].isAccountVerified /\ users[i].verifyToken # ""
        /\ users[i].name # "Alice"
        /\ verifyToken(users, now, "ok", users[i].email, "Alice", "defaultErrorHandler").res
              = Json(TRUE, "User logged in successfully")

\* C12: an OAuth callback whose profile e-mail has no record appends exactly
\* one record: that e-mail and name, isAccountVerified true, empty password,
\* empty tokens and zero expiries; the records already there stay as they are.
C12_OAuthCreatesVerified ==
    \A e \in Emails, n \in ProfileNames, x \in Escapes :
        ~Has(users, e) =>
            LET out == verifyToken(users, now, "ok", e, n, x)
                new == out.users[Len(out.users)]
            IN  /\ Len(out.users) = Len(users) + 1
                /\ SubSeq(out.users, 1, Len(users)) = users
                /\ new.email = e /\ new.name = n
                /\ new.isAccountVerified
                /\ new.password = ""
                /\ new.verifyToken = "" /\ new.verifyTokenExpireAt = 0
                /\ new.resetToken = "" /\ new.resetTokenExpireAt = 0
                /\ out.res = Json(TRUE, "User registered successfully")

\* the callback has added a record after an earlier one, and the record is
\* still as it was created
C12_Witness ==
    /\ Len(users) = 2
    /\ users[1].password # ""
    /\ users[2] = [id |-> 2, email |-> users[2].email, name |-> "Alice", password |-> "",
                   verifyToken |-> "", verifyTokenExpireAt |-> 0,
                   isAccountVerified |-> TRUE,
                   resetToken |-> "", resetTokenExpireAt |-> 0]

\* C13: /register and /send-reset-token answer the same and leave the same
\* collection (the new token and its expiry included) whether sendMail
\* succeeds or throws; once the store was written both answer success.
C13_MailFailureIgnored ==
    /\ \A n \in Names, e \in Emails, p \in Passwords :
          LET sent == register(users, nextUuid, now, n, e, p, TRUE)
              lost == register(users, nextUuid, now, n, e, p, FALSE)
          IN  /\ lost.users = sent.users /\ lost.res = sent.res
              /\ lost.setCookie = sent.setCookie
              /\ lost.users # users => lost.res.success
    /\ \A e \in Emails :
          LET sent == sendResetToken(users, nextUuid, now, e, TRUE)
              lost == sendResetToken(users, nextUuid, now, e, FALSE)
          IN  /\ lost.users = sent.users /\ lost.res = sent.res
              /\ lost.setCookie = sent.setCookie
              /\ lost.users # users => lost.res.success

\* a record exists and an e-mail is free: with sendMail throwing, /register
\* stores the new record with its token and /send-reset-token stores the
\* reset token, and both answer success
C13_Witness ==
    \E e, f \in Emails :
        LET reg == register(users, nextUuid, now, "Al", f, "pw1", FALSE)
            rst == sendResetToken(users, nextUuid, now, e, FALSE)
        IN  /\ Has(users, e) /\ ~Has(users, f)
            /\ reg.res.success /\ ~reg.mail.delivered
            /\ reg.users[Len(reg.users)].verifyToken = reg.mail.token
            /\ rst.res.success /\ ~rst.mail.delivered
            /\ Rec(rst.users, e).resetToken = rst.mail.token
            /\ Rec(users, e).resetToken # ""

\* C14: however /register and OAuth callback requests interleave, no two
\* records of the collection have the same e-mail.
C14_EmailUnique ==
    \A i, j \in DOMAIN users : users[i].email = users[j].email => i = j

\* a /register and an OAuth callback for one e-mail both got null from findOne;
\* the save of one went through and the save of the other was refused
C14_Witness ==
    \E a, b \in Slots :
        /\ inflight[a].op = "register" /\ inflight[b].op = "oauth"
        /\ inflight[a].email = inflight[b].email
        /\ inflight[a].pc = "done" /\ inflight[b].pc = "done"
        /\ \/ inflight[a].res.success /\ inflight[b].res.kind \in Escapes
           \/ inflight[b].res.success
                /\ inflight[a].res = Json(FALSE, "E11000 duplicate key error")
        /\ Cardinality({i \in DOMAIN users : users[i].email = inflight[a].email}) = 1

\* C15: when two /register requests for one new e-mail are served at the same
\* time and nothing else touches that e-mail, exactly one answers success and
\* the other answers success = false with "User already exists", also when
\* both got null from findOne before either saved.
C15_RaceSurfacedAsConflict ==
    \A a, b \in Slots :
        (/\ a # b
         /\ inflight[a].op = "register" /\ inflight[b].op = "register"
         /\ inflight[a].email = inflight[b].email
         /\ inflight[a].pc = "done" /\ inflight[b].pc = "done"
         /\ \A c \in Slots \ {a, b} : inflight[c].email # inflight[a].email)
        => \/ /\ inflight[a].res.success
              /\ inflight[b].res = Json(FALSE, "User already exists")
           \/ /\ inflight[b].res.success
              /\ inflight[a].res = Json(FALSE, "User already exists")

\* C16: in every record verifyToken is empty exactly when verifyTokenExpireAt
\* is 0, resetToken is empty exactly when resetTokenExpireAt is 0, and a
\* verified record has an empty verifyToken.
C16_TokenFieldsConsistent ==
    \A i \in DOMAIN users :
        /\ users[i].verifyToken = "" <=> users[i].verifyTokenExpireAt = 0
        /\ users[i].resetToken = "" <=> users[i].resetTokenExpireAt = 0
        /\ users[i].isAccountVerified => users[i].verifyToken = ""

\* one record went through both consumptions: /account-verify cleared its
\* verify token and /verify-reset-token cleared its reset token
C16_Witness ==
    \E c, d \in consumed :
        /\ c[1] = "verifyAccount" /\ d[1] = "verifyResetToken" /\ c[2] = d[2]
        /\ Rec(users, c[2]).isAccountVerified
        /\ Rec(users, c[2]).verifyTokenExpireAt = 0
        /\ Rec(users, c[2]).resetTokenExpireAt = 0

\* what the handlers other than /register and /reset-password return for the
\* requests they can get in the state at hand
OtherOuts ==
    {verifyAccount(users, now, t, e) : t \in TokenInputs, e \in EmailInputs}
    \cup {Signin(users, now, e, p) : e \in EmailInputs, p \in PasswordInputs}
    \cup {Logout(users), login(users)}
    \cup {isAuthenticated(users, now, c, b) : c \in CookieInputs, b \in Bodies}
    \cup {sendResetToken(users, nextUuid, now, e, m) : e \in EmailInputs, m \in BOOLEAN}
    \cup {verifyResetToken(users, now, e, t) : e \in EmailInputs, t \in TokenInputs}
    \cup {verifyToken(users, now, o, e, n, x) :
             o \in IdpOutcomes, e \in Emails, n \in ProfileNames, x \in Escapes}

\* C17: a stored password is empty or the hash of a password, never the
\* password itself; /register only gives the record it creates its hash,
\* /reset-password only replaces the hash of the record of its e-mail, and no
\* other handler changes the password of a record.
C17_PasswordFrame ==
    /\ \A i \in DOMAIN users :
          users[i].password \in {""} \cup {BcryptHash(p) : p \in Passwords}
    /\ \A out \in OtherOuts : \A i \in DOMAIN users :
          out.users[i].password = users[i].password
    /\ \A n \in NameInputs, e \in EmailInputs, p \in PasswordInputs, m \in BOOLEAN :
          LET out == register(users, nextUuid, now, n, e, p, m)
          IN  /\ \A i \in DOMAIN users : out.users[i].password = users[i].password
              /\ \A i \in DOMAIN out.users \ DOMAIN users :
                    out.users[i].password = BcryptHash(p)
    /\ \A e \in EmailInputs, p \in PasswordInputs :
          LET out == resetPassword(users, e, p)
          IN  \A i \in DOMAIN users :
                 \/ out.users[i].password = users[i].password
                 \/ /\ users[i].email = e /\ out.res.success
                    /\ out.users[i].password = BcryptHash(p)

\* /reset-password has replaced the hash that /register stored, next to a
\* record without password; the other handlers find both to leave alone
C17_Witness ==
    \E e, f \in Emails :
        /\ flow[e].stage = "committed"
        /\ flow[e].old \notin {"", Rec(users, e).password}
        /\ Rec(users, e).password = BcryptHash(flow[e].pw)
        /\ Has(users, f) /\ Rec(users, f).password = ""

\* C18: a session cookie that a handler has set and that has not expired is
\* accepted by userAuth after whatever is served next (/logout and
\* /reset-password and /singin among it): nothing revokes it.
C18_NoRevocation ==
    \A c \in IssuedCookies :
        \A out \in OtherOuts \cup
                   {resetPassword(users, e, p) : e \in Emails, p \in Passwords} :
            \A t \in {now, now + 6 * DAY_MS} :
                isAuthenticated(out.users, t, c, "object").res.success

\* C19: /logout answers success with "Logged out" and tells the client to
\* clear the cookie, in every state and whatever the request carries; it sets
\* no cookie, and the collection is neither read nor written.
C19_LogoutAlways ==
    /\ Logout(users).res = Json(TRUE, "Logged out")
    /\ Logout(users).clearCookie
    /\ Logout(users).setCookie = NoTok
    /\ Logout(users).users = users
    /\ Logout(users).mail = NoMail /\ Logout(users).uuids = 0
    /\ Logout(<<>>).res = Logout(users).res
    /\ Logout(<<>>).clearCookie = Logout(users).clearCookie

\* /logout served where sessions exist: a verified account whose cookie
\* /is-auth accepts, after the clock has moved
C19_Witness ==
    /\ ticks > 0
    /\ \E i \in DOMAIN users :
          /\ users[i].isAccountVerified /\ users[i].password # ""
          /\ isAuthenticated(users, now, JwtSign(users[i].id, "", "", now), "object").res.success
    /\ Logout(users).clearCookie

\* C20: /is-auth, called without a request body, answers success exactly when
\* the cookie is a token that verifies (signature and expiry) and carries a
\* subject id; without such a cookie the answer is success = false.
C20_IsAuthIffValidToken ==
    \A c \in CookieInputs \cup IssuedCookies, b \in Bodies :
        isAuthenticated(users, now, c, b).res.success
            <=> (JwtVerify(c, now) = "ok" /\ c.id # 0)

\* The callback is the only handler that stores a profile name, and no handler
\* changes a name: a record under a profile name is one the callback created.
ByOAuth(rec) == rec.name \in ProfileNames

\* C21: a record is verified only if /account-verify succeeded for its e-mail
\* or the OAuth callback created it; a record that /register created is
\* unverified, its verification token pending, until /account-verify succeeds.
C21_VerifiedOnlyByVerification ==
    \A i \in DOMAIN users :
        LET verifiedByLink ==
                \E c \in consumed : c[1] = "verifyAccount" /\ c[2] = users[i].email
        IN  /\ users[i].isAccountVerified => (verifiedByLink \/ ByOAuth(users[i]))
            /\ (~ByOAuth(users[i]) /\ ~verifiedByLink)
                  => (~users[i].isAccountVerified /\ users[i].verifyToken # "")

\* a record of /register that /account-verify has verified, next to a record
\* the callback created
C21_Witness ==
    \E i, j \in DOMAIN users :
        /\ ~ByOAuth(users[i]) /\ users[i].isAccountVerified
        /\ \E c \in consumed : c[1] = "verifyAccount" /\ c[2] = users[i].email
        /\ ByOAuth(users[j]) /\ users[j].isAccountVerified

C23_FifteenMinutes ==
    \A e \in Emails :
        /\ ~Has(users, e) =>
              \A n \in Names, p \in Passwords, m \in BOOLEAN :
                 LET out == register(users, nextUuid, now, n, e, p, m)
                     rec == Rec(out.users, e)
                     tok == JsStr(rec.verifyToken)
                 IN  /\ rec.verifyTokenExpireAt = now + 15 * 60 * 1000
                     /\ \A d \in {0, 1, 14 * 60 * 1000, 15 * 60 * 1000} :
                           verifyAccount(out.users, now + d, tok, e).res
                               = Json(TRUE, "Account verified")
                     /\ \A d \in {15 * 60 * 1000 + 1, 16 * 60 * 1000} :
                           Invalid(verifyAccount(out.users, now + d, tok, e),
                                   "Link is Expired")
        /\ Has(users, e) =>
              \A m \in BOOLEAN :
                 LET out == sendResetToken(users, nextUuid, now, e, m)
                     rec == Rec(out.users, e)
                     tok == JsStr(rec.resetToken)
                 IN  /\ rec.resetTokenExpireAt = now + 15 * 60 * 1000
                     /\ \A d \in {0, 1, 14 * 60 * 1000, 15 * 60 * 1000} :
                           verifyResetToken(out.users, now + d, e, tok).res
                               = Json(TRUE, "Enter new password")
                     /\ \A d \in {15 * 60 * 1000 + 1, 16 * 60 * 1000} :
                           Invalid(verifyResetToken(out.users, now + d, e, tok),
                                   "Link expired")

\* the clock stands just past the 15 minutes of a verification token and of a
\* reset token issued together: both requests answer the expired outcome
C23_Witness ==
    \E i, j \in DOMAIN users :
        /\ users[i].verifyToken # "" /\ users[j].resetToken # ""
        /\ now = users[i].verifyTokenExpireAt + 1
        /\ now = users[j].resetTokenExpireAt + 1
        /\ \E t0 \in StartTimes : users[i].verifyTokenExpireAt = t0 + 15 * 60 * 1000
        /\ verifyAccount(users, now, JsStr(users[i].verifyToken), users[i].email).res.message
              = "Link is Expired"
        /\ verifyResetToken(users, now, users[j].email, JsStr(users[j].resetToken)).res.message
              = "Link expired"

\* C24: for an e-mail without a record, /account-verify, /singin,
\* /send-reset-token, /verify-reset-token and /reset-password, their other
\* fields present, answer success = false with their not-found message, leave
\* the collection as it is, send no mail and set no cookie.
C24_NotFound ==
    \A e \in Emails :
        ~Has(users, e) =>
            /\ \A t \in TokenInputs \ {JsStr("")} :
                  /\ verifyAccount(users, now, t, e) = Reply(users, FALSE, "User not found")
                  /\ verifyResetToken(users, now, e, t) = Reply(users, FALSE, "User not found.")
            /\ \A p \in Passwords :
                  /\ Signin(users, now, e, p) = Reply(users, FALSE, "Invalid email")
                  /\ resetPassword(users, e, p) = Reply(users, FALSE, "User not found.")
            /\ \A m \in BOOLEAN :
                  sendResetToken(users, nextUuid, now, e, m)
                      = Reply(users, FALSE, "User not found")

\* one e-mail has a record with tokens that were issued, the other has none:
\* the requests for the other, those tokens in hand, are answered not found
C24_Witness ==
    \E e, f \in Emails :
        /\ Has(users, e) /\ ~Has(users, f)
        /\ Rec(users, e).verifyToken # "" /\ Rec(users, e).resetToken # ""
        /\ ~verifyAccount(users, now, JsStr(Rec(users, e).verifyToken), f).res.success
        /\ ~verifyResetToken(users, now, f, JsStr(Rec(users, e).resetToken)).res.success
        /\ ~Signin(users, now, f, "pw1").res.success

\* no request has been served: the store, the identifiers and the histories
\* are as the process found them
NothingServed ==
    /\ users = <<>>
    /\ nextUuid = 1
    /\ consumed = {}
    /\ \A e \in Emails : flow[e] = NoFlow

\* C25: the server listens only after the connection to the store is
\* established; when connecting fails at startup the process never listens
\* and serves no request.
C25_ListenOnlyWhenConnected ==
    /\ boot.phase = "listening" => boot.db = "connected"
    /\ boot.db = "failed" => (boot.phase = "exited" /\ NothingServed)
    /\ boot.phase # "listening" => NothingServed

\* the connection failed at startup and the process has ended
C25_Witness == boot.phase = "exited" /\ boot.db = "failed"

\* the documented HTTP surface (API_DOCUMENTATION.md): method, path below
\* /api/auth, and the flow it names
Documented ==
    {[path |-> <<"register">>, flow |-> "register"],
     [path |-> <<"account-verify">>, flow |-> "verifyAccount"],
     [path |-> <<"signin">>, flow |-> "Signin"],
     [path |-> <<"logout">>, flow |-> "Logout"],
     [path |-> <<"is-auth">>, flow |-> "isAuthenticated"],
     [path |-> <<"send-reset-token">>, flow |-> "sendResetToken"],
     [path |-> <<"verify-reset-token">>, flow |-> "verifyResetToken"],
     [path |-> <<"reset-password">>, flow |-> "resetPassword"],
     [path |-> <<"oauth", "google", "login">>, flow |-> "login"],
     [path |-> <<"oauth", "google", "callback">>, flow |-> "verifyToken"]}

\* C26: each (method, path) of the documented surface is routed to its flow;
\* in particular POST /api/auth/signin reaches Signin.
C26_DocumentedRoutes ==
    boot.phase = "listening" =>
        \A d \in Documented : app("POST", <<"api", "auth">> \o d.path) = d.flow

\* slots a and b carried the same link of kind op and both were answered
\* with success
BothSucceed(op, a, b) ==
    /\ a # b
    /\ inflight[a].op = op /\ inflight[b].op = op
    /\ inflight[a].email = inflight[b].email
    /\ inflight[a].token = inflight[b].token
    /\ inflight[a].pc = "done" /\ inflight[b].pc = "done"
    /\ inflight[a].res.success /\ inflight[b].res.success

\* C27: of two concurrent /account-verify requests, or two concurrent
\* /verify-reset-token requests, that carry the same valid token for the same
\* e-mail, at most one is answered with success, however they interleave.
C27_SingleUseConcurrent ==
    \A a, b \in Slots :
        /\ ~BothSucceed("verifyAccount", a, b)
        /\ ~BothSucceed("verifyResetToken", a, b)

\* token is exactly the pending token stored
ExactlyPending(stored, token) == stored # "" /\ token = JsStr(stored)

\* C28: the token is compared before the expiry is checked: a request whose
\* token is present but is not exactly the stored one, or whose record has no
\* pending token, gets the invalid answer even when the stored token has
\* expired; the expired answer is given only for an exactly matching token.
C28_CompareBeforeExpiry ==
    \A i \in DOMAIN users : \A t \in TokenInputs :
        LET u == users[i]
            va == verifyAccount(users, now, t, u.email)
            vr == verifyResetToken(users, now, u.email, t)
        IN  ~Falsy(t) =>
              /\ ~ExactlyPending(u.verifyToken, t) => Invalid(va, "Link in not valid")
              /\ va.res.message = "Link is Expired" => ExactlyPending(u.verifyToken, t)
              /\ ~ExactlyPending(u.resetToken, t) => Invalid(vr, "Invalid Link.")
              /\ vr.res.message = "Link expired" => ExactlyPending(u.resetToken, t)

\* the fields of the verification lifecycle, and those of the reset lifecycle
VerifyFields(rec) == <<rec.verifyToken, rec.verifyTokenExpireAt, rec.isAccountVerified>>

ResetFields(rec) == <<rec.resetToken, rec.resetTokenExpireAt>>

\* C29: the two token lifecycles of a record are independent: a successful
\* /account-verify leaves resetToken and resetTokenExpireAt as they were;
\* /send-reset-token and a successful /verify-reset-token leave verifyToken,
\* verifyTokenExpireAt and isAccountVerified as they were.
C29_LifecyclesIndependent ==
    \A i \in DOMAIN users :
        LET u == users[i]
        IN  /\ \A t \in TokenInputs :
                 LET va == verifyAccount(users, now, t, u.email)
                     vr == verifyResetToken(users, now, u.email, t)
                 IN  /\ va.res.success =>
                            ResetFields(Rec(va.users, u.email)) = ResetFields(u)
                     /\ vr.res.success =>
                            VerifyFields(Rec(vr.users, u.email)) = VerifyFields(u)
            /\ \A m \in BOOLEAN :
                 LET sr == sendResetToken(users, nextUuid, now, u.email, m)
                 IN  sr.res.success =>
                        VerifyFields(Rec(sr.users, u.email)) = VerifyFields(u)

\* a record with both tokens pending, for which each of the three requests
\* succeeds
C29_Witness ==
    \E i \in DOMAIN users :
        LET u == users[i]
        IN  /\ u.verifyToken # "" /\ u.resetToken # ""
            /\ verifyAccount(users, now, JsStr(u.verifyToken), u.email).res.success
            /\ verifyResetToken(users, now, u.email, JsStr(u.resetToken)).res.success
            /\ sendResetToken(users, nextUuid, now, u.email, TRUE).res.success

\* C30: only the reset token issued last can be redeemed: after two successful
\* /send-reset-token requests for an e-mail, issuing t1 and then t2,
\* /verify-reset-token with t1 is answered "Invalid Link." and leaves the
\* record as it is, and with t2, up to its expiry, it succeeds.
C30_LatestResetTokenOnly ==
    \A i \in DOMAIN users :
        LET u == users[i]
        IN  /\ \A t \in IssuedUuids :
                 LET vr == verifyResetToken(users, now, u.email, JsStr(t))
                 IN  /\ t # u.resetToken =>
                            (Invalid(vr, "Invalid Link.") /\ vr.users = users)
                     /\ (t = u.resetToken /\ now <= u.resetTokenExpireAt) =>
                            vr.res = Json(TRUE, "Enter new password")
            /\ u.resetToken # "" =>
                 \A m \in BOOLEAN :
                    LET t1 == u.resetToken
                        t2 == RandomUUID(nextUuid)
                        second == sendResetToken(users, nextUuid, now, u.email, m)
                        old == verifyResetToken(second.users, now, u.email, JsStr(t1))
                    IN  /\ second.res.success /\ t1 # t2
                        /\ Invalid(old, "Invalid Link.") /\ old.users = second.users
                        /\ \A at \in {now, now + TOKEN_TTL_MS} :
                              verifyResetToken(second.users, at, u.email, JsStr(t2)).res
                                    = Json(TRUE, "Enter new password")

\* the only record is one the OAuth callback created, so both identifiers
\* handed out were reset tokens mailed for it: the second replaced the first
C30_Witness ==
    /\ Len(users) = 1 /\ ByOAuth(users[1])
    /\ nextUuid = 3
    /\ users[1].resetToken = RandomUUID(2)
    /\ Invalid(verifyResetToken(users, now, users[1].email, JsStr(RandomUUID(1))),
               "Invalid Link.")
    /\ verifyResetToken(users, now, users[1].email, JsStr(RandomUUID(2))).res.success

\* the record of email is unverified and the expiry of its verification
\* token has passed at time t
StuckUnverified(store, t, email) ==
    /\ Has(store, email)
    /\ ~Rec(store, email).isAccountVerified
    /\ Rec(store, email).verifyTokenExpireAt < t

Verified(store, email) == Has(store, email) /\ Rec(store, email).isAccountVerified

\* C32: isAccountVerified is monotone: a record that is verified is verified
\* after every step, whatever the request.
C32_VerifiedMonotone ==
    [][\A e \in Emails : Verified(users, e) => Verified(users', e)]_vars

\* a record verified by its link whose password was reset and which has a
\* reset token pending, next to a verified record of the OAuth callback
C32_Witness ==
    \E e, f \in Emails :
        /\ Verified(users, e) /\ ~ByOAuth(Rec(users, e))
        /\ flow[e].stage = "committed"
        /\ Verified(users, f) /\ ByOAuth(Rec(users, f))

\* the record of email has no password hash
NoPassword(store, email) == Has(store, email) /\ Rec(store, email).password = ""

\* C33: a record without password hash (created by the OAuth callback) cannot
\* be signed into with a password: /singin answers "Incorrect password" for
\* every password, until a /reset-password for its e-mail has succeeded; from
\* then on /singin succeeds with exactly the new password.
C33_NoPasswordNoSignin ==
    /\ [](\A e \in Emails :
            NoPassword(users, e) =>
              /\ \A p \in Passwords : Invalid(Signin(users, now, e, p), "Incorrect password")
              /\ \A np \in Passwords :
                    LET rp == resetPassword(users, e, np)
                    IN  /\ rp.res.success
                        /\ Signin(rp.users, now, e, np).res = Json(TRUE, "")
                        /\ Signin(rp.users, now, e, np).setCookie.id = Rec(users, e).id
                        /\ \A q \in Passwords \ {np} :
                              Invalid(Signin(rp.users, now, e, q), "Incorrect password"))
    /\ [][\A e \in Emails :
            (NoPassword(users, e) /\ ~NoPassword(users', e)) =>
                \E np \in Passwords :
                    /\ resetPassword(users, e, np).res.success
                    /\ users' = resetPassword(users, e, np).users]_vars

\* two records of the OAuth callback: one still without password, refused;
\* one whose password was reset to pw2, which signs in with pw2 only
C33_Witness ==
    \E e, f \in Emails :
        /\ NoPassword(users, e) /\ ByOAuth(Rec(users, e))
        /\ Signin(users, now, e, "pw1").res.message = "Incorrect password"
        /\ Has(users, f) /\ ByOAuth(Rec(users, f))
        /\ Rec(users, f).password = BcryptHash("pw2")
        /\ Signin(users, now, f, "pw2").res.success
        /\ ~Signin(users, now, f, "pw1").res.success

\* C34: /singin does not look at the verification status: for an unverified
\* record, its verification pending or expired, the correct password gets
\* success and a session cookie, and the record stays unverified.
C34_SigninUnverified ==
    \A i \in DOMAIN users : \A p \in Passwords :
        LET u == users[i]
            out == Signin(users, now, u.email, p)
        IN  (~u.isAccountVerified /\ u.password = BcryptHash(p)) =>
              /\ out.res = Json(TRUE, "")
              /\ out.setCookie = JwtSign(u.id, "", "", now)
              /\ out.users = users
              /\ ~Rec(out.users, u.email).isAccountVerified

\* an unverified record with its verification pending next to one whose
\* verification has expired; both sign in
C34_Witness ==
    \E e, f \in Emails :
        /\ Has(users, e) /\ ~Rec(users, e).isAccountVerified
        /\ Rec(users, e).verifyTokenExpireAt >= now
        /\ StuckUnverified(users, now, f)
        /\ \E p, q \in Passwords :
              /\ Signin(users, now, e, p).res.success
              /\ Signin(users, now, f, q).res.success

\* what the handlers that never set a session cookie return for the requests
\* they can get in the state at hand
NonIssuingOuts ==
    {register(users, nextUuid, now, n, e, p, m) :
        n \in NameInputs, e \in EmailInputs, p \in PasswordInputs, m \in BOOLEAN}
    \cup {Logout(users), login(users)}
    \cup {isAuthenticated(users, now, c, b) : c \in CookieInputs, b \in Bodies}
    \cup {sendResetToken(users, nextUuid, now, e, m) : e \in EmailInputs, m \in BOOLEAN}
    \cup {verifyResetToken(users, now, e, t) : e \in EmailInputs, t \in TokenInputs}
    \cup {resetPassword(users, e, p) : e \in EmailInputs, p \in PasswordInputs}

\* C35: a session cookie is set only by a request that itself carried the
\* stored, unexpired verification token of the subject (/account-verify), a
\* password that matches the subject's stored hash (/singin), or completed the
\* exchange with the identity provider for the subject's e-mail (the OAuth
\* callback); a request answered with success = false sets no session cookie.
C35_CookieOnlyOnProof ==
    /\ \A t \in TokenInputs, e \in EmailInputs :
          LET out == verifyAccount(users, now, t, e)
          IN  out.setCookie # NoTok =>
                /\ out.res.success
                /\ Has(users, e)
                /\ Rec(users, e).verifyToken # "" /\ t.s = Rec(users, e).verifyToken
                /\ now <= Rec(users, e).verifyTokenExpireAt
                /\ out.setCookie = JwtSign(Rec(users, e).id, "", "", now)
    /\ \A e \in EmailInputs, p \in PasswordInputs :
          LET out == Signin(users, now, e, p)
          IN  out.setCookie # NoTok =>
                /\ out.res.success
                /\ Has(users, e) /\ p # ""
                /\ Rec(users, e).password = BcryptHash(p)
                /\ out.setCookie = JwtSign(Rec(users, e).id, "", "", now)
    /\ \A o \in IdpOutcomes, x \in Escapes : \A pr \in Profiles(o) :
          LET out == verifyToken(users, now, o, pr.email, pr.name, x)
          IN  out.setCookie # NoTok =>
                /\ out.res.success
                /\ o = "ok"
                /\ out.setCookie.email = pr.email
    /\ \A out \in NonIssuingOuts : out.setCookie = NoTok

\* a record for which /account-verify and /singin set a cookie now, the OAuth
\* callback sets one for its e-mail, and a wrong password and a token past its
\* expiry get none
C35_Witness ==
    \E e, f \in Emails :
        /\ Has(users, e) /\ Has(users, f)
        /\ verifyAccount(users, now, JsStr(Rec(users, e).verifyToken), e).setCookie.id
              = Rec(users, e).id
        /\ Signin(users, now, e, "pw1").setCookie.id = Rec(users, e).id
        /\ Signin(users, now, e, "pw2").setCookie = NoTok
        /\ \A x \in Escapes :
              verifyToken(users, now, "ok", e, "Alice", x).setCookie.email = e
        /\ StuckUnverified(users, now, f)
        /\ Invalid(verifyAccount(users, now, JsStr(Rec(users, f).verifyToken), f),
                   "Link is Expired")

\* the step at hand ends a /verify-reset-token request that carried token for
\* email and answers it with success
Redeems(email, token) ==
    \E s \in Slots :
        /\ inflight[s].op = "verifyResetToken" /\ inflight[s].pc = "save"
        /\ inflight[s].email = email /\ inflight[s].token = token
        /\ inflight'[s].pc = "done" /\ inflight'[s].res.success

\* the step at hand is a /send-reset-token that stores a new token for email
Replaces(email) ==
    /\ nextUuid' = nextUuid + 1
    /\ Rec(users', email).resetToken = RandomUUID(nextUuid)

\* C37: a reset token that /send-reset-token has stored stays on the record
\* until a /verify-reset-token carrying it succeeds or a later
\* /send-reset-token replaces it, however the requests interleave: a
\* /verify-reset-token that read the record while an older token was pending
\* does not clear a newer one stored in between.
C37_ResetTokenKept ==
    [][\A e \in Emails :
          (Has(users, e) /\ Rec(users, e).resetToken # ""
              /\ Rec(users', e).resetToken # Rec(users, e).resetToken)
            => (Redeems(e, Rec(users, e).resetToken) \/ Replaces(e))]_vars

\* C36: /register and /send-reset-token write the token and its expiry to
\* the store before they call the mailer: a token handed to the mailer is the
\* token on the record of the addressee when the mail is sent, and no mail is
\* sent when the write fails.
C36_PersistBeforeNotify ==
    /\ \A n \in Names, e \in Emails, p \in Passwords, m \in BOOLEAN, f \in Faults :
          LET out == registerEnv(users, nextUuid, now, n, e, p, m, f)
          IN  /\ out.mail # NoMail =>
                    /\ out.mail.to = e /\ Has(out.users, e)
                    /\ Rec(out.users, e).verifyToken = out.mail.token
                    /\ Rec(out.users, e).verifyTokenExpireAt = now + TOKEN_TTL_MS
              /\ f = "write" => (out.mail = NoMail /\ out.users = users)
              /\ SaveUser(users, nextUuid, now, n, e, p, m).users = users
                    => SaveUser(users, nextUuid, now, n, e, p, m).mail = NoMail
    /\ \A e \in Emails, m \in BOOLEAN, f \in Faults :
          LET out == sendResetTokenEnv(users, nextUuid, now, e, m, f)
          IN  /\ out.mail # NoMail =>
                    /\ out.mail.to = e /\ Has(out.users, e)
                    /\ Rec(out.users, e).resetToken = out.mail.token
                    /\ Rec(out.users, e).resetTokenExpireAt = now + TOKEN_TTL_MS
              /\ f = "write" => (out.mail = NoMail /\ out.users = users)

\* a write of /register failed before: its identifier is on no record, and
\* the only record holds the second; a /send-reset-token for it whose write
\* fails sends no mail, one whose write succeeds mails what it stored
C36_Witness ==
    /\ Len(users) = 1 /\ nextUuid = 3
    /\ users[1].verifyToken = RandomUUID(2) /\ users[1].resetToken = ""
    /\ sendResetTokenEnv(users, nextUuid, now, users[1].email, TRUE, "write").mail = NoMail
    /\ sendResetTokenEnv(users, nextUuid, now, users[1].email, TRUE, "none").mail.token
          = RandomUUID(3)

\* what /register, /account-verify, /singin, /send-reset-token,
\* /verify-reset-token and /reset-password return for the requests they can
\* get in the state at hand, whatever call fails
FlowOuts ==
    {registerEnv(users, nextUuid, now, n, e, p, m, f) :
        n \in NameInputs, e \in EmailInputs, p \in PasswordInputs, m \in BOOLEAN,
        f \in Faults}
    \cup {verifyAccountEnv(users, now, t, e, f, boot.secret) :
            t \in TokenInputs, e \in EmailInputs, f \in Faults}
    \cup {SigninEnv(users, now, e, p, f, boot.secret) :
            e \in EmailInputs, p \in PasswordInputs, f \in Faults}
    \cup {sendResetTokenEnv(users, nextUuid, now, e, m, f) :
            e \in EmailInputs, m \in BOOLEAN, f \in Faults}
    \cup {verifyResetTokenEnv(users, now, e, t, f) :
            e \in EmailInputs, t \in TokenInputs, f \in Faults}
    \cup {resetPasswordEnv(users, e, p, f) :
            e \in EmailInputs, p \in PasswordInputs, f \in Faults}

\* C38: a request to /register, /account-verify, /singin, /send-reset-token,
\* /verify-reset-token or /reset-password that is answered with
\* success = false leaves the whole collection as it was, also when the
\* failure comes after the lookup, as in the signing of the session token.
C38_FailureChangesNothing ==
    \A out \in FlowOuts : ~out.res.success => out.users = users

=============================================================================
